---- MODULE Spec2Model ----
(***************************************************************************)
(* Population-change dashboard (two Streamlit scripts).                    *)
(*                                                                         *)
(*   src/streamlit_app_population_dashboard.py           ("altair" script) *)
(*   src/streamlit_app_population_dashboard_plotly_bubblemap.py ("plotly") *)
(*                                                                         *)
(* Text is a sequence of characters; one Hangul syllable is one character, *)
(* written here in romanised form ("jeon","ra","buk","do" for the old      *)
(* province name Jeollabuk-do).  A nullable value is a sequence of length  *)
(* at most one: NA == <<>> is pandas' NaN/None, <<v>> is the value v.      *)
(***************************************************************************)
EXTENDS Integers, Sequences, FiniteSets, TLC

VARIABLES
  mode,        \* which part of the program the behaviour exercises
  s_in,        \* standardize_region: the argument s
  s_out,       \* standardize_region: the value returned
  x_in,        \* to_num: the argument x (a raw cell)
  x_out,       \* to_num: the outcome (raised or the value returned)
  raw,         \* the uploaded wide table (altair script, line 47)
  convStatus,  \* the conversion's position / the exception that ended it
  df,          \* the long table the rest of the script works on
  sel,         \* the sidebar selections (measure, sex, region, dates, month)
  view1,       \* what the altair script computed in its last run
  view2,       \* what the plotly script computed in its last run
  files,       \* content of the file at each path
  cache,       \* st.cache_data's entries, per memoized loader
  lastLoad     \* the last load performed and what it returned

vars == <<mode, s_in, s_out, x_in, x_out, raw, convStatus, df, sel,
          view1, view2, files, cache, lastLoad>>

stdVars   == <<s_in, s_out>>
numVars   == <<x_in, x_out>>
convVars  == <<raw, convStatus>>
viewVars  == <<sel, view1, view2>>
cacheVars == <<files, cache, lastLoad>>

-----------------------------------------------------------------------------
(* Nullable values and a few sequence helpers.                             *)

NA == <<>>
Some(v) == <<v>>
isna(v) == v = NA                       \* pd.isna / pd.notna on a scalar

RECURSIVE SeqsUpTo(_, _)
\* every sequence of at most n elements of S
SeqsUpTo(S, n) ==
  IF n = 0 THEN {<<>>}
  ELSE LET shorter == SeqsUpTo(S, n - 1)
       IN  shorter \cup {s \o <<c>> : s \in shorter, c \in S}

RECURSIVE Concat(_)
\* the concatenation of a sequence of strings
Concat(parts) ==
  IF parts = <<>> THEN <<>> ELSE Head(parts) \o Concat(Tail(parts))

-----------------------------------------------------------------------------
(* Python str operations, as the scripts use them.                         *)

Whitespace == {" ", "\t"}

RECURSIVE LStrip(_)
LStrip(s) ==
  IF s # <<>> /\ Head(s) \in Whitespace THEN LStrip(Tail(s)) ELSE s

RECURSIVE RStrip(_)
RStrip(s) ==
  IF s # <<>> /\ s[Len(s)] \in Whitespace
  THEN RStrip(SubSeq(s, 1, Len(s) - 1)) ELSE s

\* str.strip()
Strip(s) == RStrip(LStrip(s))

\* str.startswith(p)
StartsWith(s, p) == Len(s) >= Len(p) /\ SubSeq(s, 1, Len(p)) = p

RECURSIVE Replace(_, _, _, _)
\* str.replace(old, new, count): the first count non-overlapping occurrences
\* of old, left to right; a negative count (the default, -1) means all.
\* old is never empty here.
Replace(s, old, new, count) ==
  IF count = 0 \/ Len(s) < Len(old) THEN s
  ELSE IF StartsWith(s, old)
       THEN new \o Replace(SubSeq(s, Len(old) + 1, Len(s)), old, new, count - 1)
       ELSE <<Head(s)>> \o Replace(Tail(s), old, new, count)

\* p in s (substring test)
RECURSIVE Contains(_, _)
Contains(s, p) ==
  IF Len(s) < Len(p) THEN FALSE
  ELSE StartsWith(s, p) \/ Contains(Tail(s), p)

-----------------------------------------------------------------------------
(* standardize_region (altair script, lines 52-58).                        *)

OldPrefix == <<"jeon", "ra", "buk", "do">>                       \* Jeollabuk-do
NewPrefix == <<"jeon", "buk", "teuk", "byeol", "ja", "chi", "do">>
JeonNam   == <<"jeon", "ra", "nam", "do">>   \* Jeollanam-do: shares two syllables

\* standardize_region with replace's count left out at line 57
standardize_region_all(s) ==
  IF isna(s) THEN s
  ELSE LET t == Strip(s[1])
       IN  Some(IF StartsWith(t, OldPrefix)
                THEN Replace(t, OldPrefix, NewPrefix, -1) ELSE t)

\* standardize_region with `in` for startswith at line 56
standardize_region_contains(s) ==
  IF isna(s) THEN s
  ELSE LET t == Strip(s[1])
       IN  Some(IF Contains(t, OldPrefix)
                THEN Replace(t, OldPrefix, NewPrefix, 1) ELSE t)

standardize_region(s) ==
  IF isna(s) THEN s
  ELSE LET t == Strip(s[1])
       IN  Some(IF StartsWith(t, OldPrefix)
                THEN Replace(t, OldPrefix, NewPrefix, 1) ELSE t)

MaxParts == 4
NameTokens == {<<" ">>, <<"\t">>, OldPrefix, JeonNam, <<"A">>}
\* the region names tried: null, and every concatenation of at most MaxParts
\* tokens
Names == {NA} \cup {Some(Concat(p)) : p \in SeqsUpTo(NameTokens, MaxParts)}

-----------------------------------------------------------------------------
(* to_num (altair script, lines 77-86).                                    *)

NaN == NA
Num(n) == Some(n)

Digits == {"0", "1", "2", "3", "4", "5", "6", "7", "8", "9"}
DigitVal(c) ==
  CASE c = "0" -> 0 [] c = "1" -> 1 [] c = "2" -> 2 [] c = "3" -> 3
    [] c = "4" -> 4 [] c = "5" -> 5 [] c = "6" -> 6 [] c = "7" -> 7
    [] c = "8" -> 8 [] c = "9" -> 9

RECURSIVE DecimalValue(_)
\* the number a non-empty run of digits denotes
DecimalValue(ds) ==
  IF ds = <<>> THEN 0
  ELSE 10 * DecimalValue(SubSeq(ds, 1, Len(ds) - 1)) + DigitVal(ds[Len(ds)])

AllDigits(s) == s # <<>> /\ \A i \in 1..Len(s) : s[i] \in Digits

\* Python's float(str), on the characters the cells here are made of:
\* surrounding whitespace is ignored, then an optional sign and digits;
\* anything else is a ValueError (ok = FALSE).
PyFloat(s) ==
  LET t    == Strip(s)
      body == IF t # <<>> /\ Head(t) \in {"-", "+"} THEN Tail(t) ELSE t
      neg  == t # <<>> /\ Head(t) = "-"
  IN  IF AllDigits(body)
      THEN [ok |-> TRUE,
            v  |-> IF neg THEN 0 - DecimalValue(body) ELSE DecimalValue(body)]
      ELSE [ok |-> FALSE, v |-> 0]

\* the outcome of a call: raised, or returned val
Returned(v) == [raised |-> FALSE, val |-> v]
Raised      == [raised |-> TRUE,  val |-> NaN]

\* to_num without the replace of line 80
to_num_keep_commas(x) ==
  IF isna(x) THEN Returned(NaN)
  ELSE LET s == Strip(x[1])
       IN  IF s = <<>> THEN Returned(NaN)
           ELSE IF PyFloat(s).ok THEN Returned(Num(PyFloat(s).v))
                ELSE Returned(NaN)

to_num(x) ==
  IF isna(x) THEN Returned(NaN)                            \* line 78-79
  ELSE LET s == Replace(Strip(x[1]), <<",">>, <<>>, -1)    \* line 80
       IN  IF s = <<>> THEN Returned(NaN)                  \* line 81-82
           ELSE IF PyFloat(s).ok THEN Returned(Num(PyFloat(s).v))
                ELSE Returned(NaN)                         \* bare except

MaxCellLen == 5
CellChars == {"1", "2", "3", "4", ",", " ", "-", "x"}
\* the raw cells tried: null, and every string of at most MaxCellLen characters
Cells == {NA} \cup {Some(s) : s \in SeqsUpTo(CellChars, MaxCellLen)}

-----------------------------------------------------------------------------
(* The wide table and its column headers (altair script, lines 47, 60-69). *)
(* A header is a sequence of characters; the indicator and sex labels of   *)
(* the pattern's alternations are single characters here:                  *)
(*   "nyeon" (year mark), "wol" (month mark),                              *)
(*   "PREV" jeonwol-ingusu, "CUR" dangwol-ingusu, "CHG" ingu-jeunggam,     *)
(*   "MALE" namja-ingusu, "FEMALE" yeoja-ingusu, "TOTAL" gye,              *)
(*   "ETC" gita (a label the pattern does not know).                       *)

MeasureLabels == {"PREV", "CUR", "CHG"}
SexLabels     == {"MALE", "FEMALE", "TOTAL"}

NoMatch == [ok |-> FALSE, year |-> 0, month |-> 0, measure |-> "", sex |-> ""]

\* pattern.match(c), line 62 and 65-68:
\*   ^(\d{4})nyeon(\d{1,2})wol_(PREV|CUR|CHG)_(MALE|FEMALE|TOTAL)$
\* and the int() of the two digit groups
PatternMatch(c) ==
  LET n  == Len(c)
      md == IF n >= 7 /\ c[7] = "wol" THEN 1 ELSE 2    \* digits of the month
      k  == 5 + md                                      \* index before "wol"
  IN  IF /\ n = k + 5
         /\ AllDigits(SubSeq(c, 1, 4))
         /\ c[5] = "nyeon"
         /\ AllDigits(SubSeq(c, 6, k))
         /\ c[k + 1] = "wol"
         /\ c[k + 2] = "_"
         /\ c[k + 3] \in MeasureLabels
         /\ c[k + 4] = "_"
         /\ c[k + 5] \in SexLabels
      THEN [ok |-> TRUE,
            year    |-> DecimalValue(SubSeq(c, 1, 4)),
            month   |-> DecimalValue(SubSeq(c, 6, k)),
            measure |-> c[k + 3],
            sex     |-> c[k + 5]]
      ELSE NoMatch

Y2024 == <<"2", "0", "2", "4", "nyeon">>
H_chg3  == Y2024 \o <<"3", "wol", "_", "CHG", "_", "TOTAL">>
H_chg03 == Y2024 \o <<"0", "3", "wol", "_", "CHG", "_", "TOTAL">>
H_chg13 == Y2024 \o <<"1", "3", "wol", "_", "CHG", "_", "TOTAL">>
H_cur4  == Y2024 \o <<"4", "wol", "_", "CUR", "_", "TOTAL">>
H_etc3  == Y2024 \o <<"3", "wol", "_", "ETC", "_", "TOTAL">>
H_notes == <<"n", "o", "t", "e", "s">>

\* the value columns tried, in file order
HeaderPool == <<H_chg3, H_chg03, H_chg13, H_cur4, H_etc3, H_notes>>

MaxCols == 2
MaxRows == 2

\* the column lists of a file: increasing picks of at most MaxCols headers
ColumnLists ==
  {p \in SeqsUpTo(1..Len(HeaderPool), MaxCols) :
     \A i \in 1..Len(p) - 1 : p[i] < p[i + 1]}

ConvRegions == {NA, Some(OldPrefix), Some(NewPrefix)}
ConvCells   == {NA, Some(<<"1", "0">>), Some(<<"2", "0">>)}

\* a data row: the region cell (NA in a file without the column) and one
\* cell per value column; std is the column line 60 adds
WideRows(ncols, hasRegion) ==
  [region : IF hasRegion THEN ConvRegions ELSE {NA},
   std    : {NA},
   cells  : [1..ncols -> ConvCells]]

\* the file with the column list p of n rows rs, as pd.read_csv leaves it
WideTable(hasRegion, p, rs) ==
  [hasRegion |-> hasRegion, hasStd |-> FALSE,
   cols |-> [i \in 1..Len(p) |-> HeaderPool[p[i]]], rows |-> rs]

-----------------------------------------------------------------------------
(* The wide-to-long conversion (altair script, lines 60-91).               *)

NoDf == [built |-> FALSE, rows |-> {}]
Built(rows) == [built |-> TRUE, rows |-> rows]

\* raw.get(...) in place of the subscript: no KeyError, a column of nulls
RegionColumnOrNulls(w) == [ok |-> TRUE]

\* raw["haengjeong-guyeok"], line 60: a KeyError when the column is absent
RegionColumn(w) == [ok |-> w.hasRegion]

\* line 60: the standardized column is added to raw itself
WithStd(w) ==
  [w EXCEPT !.hasStd = TRUE,
            !.rows = [i \in 1..Len(w.rows) |->
                        [w.rows[i] EXCEPT !.std = standardize_region(w.rows[i].region)]]]

\* lines 63-69: the matching columns, as indices into w.cols
Meta(w) == {j \in 1..Len(w.cols) : PatternMatch(w.cols[j]).ok}

\* lines 70-75 and 88: one reshaped row per (input row, matching column)
Long(w) ==
  {[row     |-> i,
    col     |-> j,
    region  |-> w.rows[i].std,
    year    |-> PatternMatch(w.cols[j]).year,
    month   |-> PatternMatch(w.cols[j]).month,
    measure |-> PatternMatch(w.cols[j]).measure,
    sex     |-> PatternMatch(w.cols[j]).sex,
    num     |-> to_num(w.rows[i].cells[j])] :
      i \in 1..Len(w.rows), j \in Meta(w)}

\* pd.to_datetime of "<year>-<month, zero-filled>-01", line 89: a timestamp
\* exists for months 1..12 of the years a nanosecond timestamp can hold
ValidDate(year, month) ==
  /\ month >= 1 /\ month <= 12
  /\ year >= 1678 /\ year <= 2261

\* a first-of-month timestamp, as a count of months
Timestamp(year, month) == year * 12 + (month - 1)

Max(S) == CHOOSE m \in S : \A n \in S : n <= m

\* GroupBy.max of a group's values: NaN is skipped, an all-NaN group is NaN
GroupMax(vals) ==
  LET nums == {v[1] : v \in {u \in vals : ~isna(u)}}
  IN  IF nums = {} THEN NaN ELSE Num(Max(nums))

Key(r) == <<r.region, r.date, r.measure, r.sex>>

\* line 90-91: groupby(...)["value"].max(); groupby leaves out the rows whose
\* key has a null component (dropna=True, the default)
GroupByMax(tidy) ==
  {[region |-> k[1], date |-> k[2], measure |-> k[3], sex |-> k[4],
    value  |-> GroupMax({r.value : r \in {q \in tidy : Key(q) = k}})] :
      k \in {Key(r) : r \in {q \in tidy : ~isna(q.region)}}}

\* line 90: the columns kept, with the date of line 89.  Two reshaped rows
\* may agree on all five columns, so tidy is a set of (row, col)-tagged rows
Tidy(long) ==
  {[row |-> l.row, col |-> l.col, region |-> l.region,
    date |-> Timestamp(l.year, l.month), measure |-> l.measure,
    sex |-> l.sex, value |-> l.num.val] : l \in long}

\* the whole handler of the convert button: the table raw becomes, how the
\* run ended and the long table it left in df
ConvertWide(w) ==
  IF ~RegionColumn(w).ok
  THEN [raw |-> w, status |-> "KeyError", df |-> NoDf]
  ELSE LET w1   == WithStd(w)
           long == Long(w1)
       IN  IF \E l \in long : l.num.raised
           THEN [raw |-> w1, status |-> "Exception", df |-> NoDf]
           ELSE IF \E l \in long : ~ValidDate(l.year, l.month)
           THEN [raw |-> w1, status |-> "ValueError", df |-> NoDf]
           ELSE [raw |-> w1, status |-> "ok",
                 df  |-> Built(GroupByMax(Tidy(long)))]

-----------------------------------------------------------------------------
(* The dashboard over the long table: filters, time series, KPI cards and  *)
(* rankings (altair script, lines 97-181; plotly script, lines 84-178).    *)
(* A row of df is [region, date, measure, sex, value]; date is a           *)
(* first-of-month timestamp (a count of months).                           *)

National == <<"jeonguk">>               \* the "whole country (sum)" option

\* the filtered table dff: lines 124-130 (altair), 135-141 (plotly)
Filtered(rows, s) ==
  {r \in rows : /\ r.measure = s.measure
                /\ r.sex = s.sex
                /\ r.date >= s.start
                /\ r.date <= s.end}

RECURSIVE SumValues(_)
\* the sum of the non-NaN values of a set of rows; 0 for none of them
SumValues(rows) ==
  IF rows = {} THEN 0
  ELSE LET r == CHOOSE q \in rows : TRUE
       IN  (IF isna(r.value) THEN 0 ELSE r.value[1]) + SumValues(rows \ {r})

\* GroupBy.sum of a group's values: NaN is skipped and min_count is 0, so
\* the sum of an all-NaN group is 0.0
GroupSum(rows) == Num(SumValues(rows))

RECURSIVE SortByDate(_)
\* rows with distinct dates, in date order
SortByDate(rows) ==
  IF rows = {} THEN <<>>
  ELSE LET r == CHOOSE q \in rows : \A o \in rows : q.date <= o.date
       IN  <<r>> \o SortByDate(rows \ {r})

\* ts: line 133-136 (altair), 145-148 (plotly).  The regional series has
\* one row per date because a key occurs once in df
TimeSeries(rows, s) ==
  LET dff == Filtered(rows, s)
  IN  IF s.region = National
      THEN SortByDate({[date  |-> d,
                        value |-> GroupSum({r \in dff : r.date = d})] :
                          d \in {r.date : r \in dff}})
      ELSE SortByDate({[date |-> r.date, value |-> r.value] :
                          r \in {q \in dff : q.region = Some(s.region)}})

\* DataFrame.tail(n) and .head(n) of a sequence of rows
TailRows(sq, n) == SubSeq(sq, IF Len(sq) > n THEN Len(sq) - n + 1 ELSE 1, Len(sq))
HeadRows(sq, n) == SubSeq(sq, 1, IF Len(sq) > n THEN n ELSE Len(sq))

\* fmt_signed_int: "-" for NaN, else the sign and the digits of the integer
fmt_signed_int(x) ==
  IF isna(x) THEN <<"-">>
  ELSE <<IF x[1] > 0 THEN "+" ELSE "", x[1]>>

\* the fourth KPI card: the delta, only for the two population measures
DeltaCard(measure, latest_value, prev_value) ==
  IF measure \in {"CUR", "PREV"}
  THEN LET delta == IF ~isna(latest_value) /\ ~isna(prev_value)
                    THEN Num(latest_value[1] - prev_value[1]) ELSE NaN
       IN  [delta |-> delta, shown |-> fmt_signed_int(delta)]
  ELSE [delta |-> NaN, shown |-> <<"--">>]

\* altair script, lines 139-153
KpiAltair(ts, measure) ==
  LET latest == TailRows(ts, 1)
      prev   == HeadRows(TailRows(ts, 2), 1)
      latest_value == IF Len(latest) > 0 THEN latest[1].value ELSE NaN
      prev_value   == IF Len(prev) > 0 THEN prev[1].value ELSE NaN
  IN  [latest |-> latest_value, prev |-> prev_value,
       card |-> DeltaCard(measure, latest_value, prev_value)]

\* plotly script, lines 150-162
KpiPlotly(ts, measure) ==
  LET latest_value == IF Len(ts) > 0 THEN ts[Len(ts)].value ELSE NaN
      prev_value   == IF Len(ts) >= 2 THEN ts[Len(ts) - 1].value ELSE NaN
  IN  [latest |-> latest_value, prev |-> prev_value,
       card |-> DeltaCard(measure, latest_value, prev_value)]

\* head(10), lines 180-181 (altair) and 177-178 (plotly)
TopN == 10

\* rank_base without the sex condition
RankBaseAnySex(rows, s) ==
  {r \in rows : r.measure = "CHG" /\ r.date = s.target}

\* rank_base: line 176 (altair), 172 (plotly)
RankBase(rows, s) ==
  {r \in rows : r.measure = "CHG" /\ r.sex = s.sex /\ r.date = s.target}

\* sort_values("value", ascending=asc): a goes strictly before b.  NaN goes
\* last in either direction (na_position="last")
Before(a, b, asc) ==
  /\ ~isna(a.value)
  /\ \/ isna(b.value)
     \/ IF asc THEN a.value[1] < b.value[1] ELSE a.value[1] > b.value[1]

RECURSIVE SortedHeads(_, _, _)
\* sort_values("value", ascending=asc).head(n): the sort is not stable, so
\* rows of equal value come in any order; every outcome is in this set
SortedHeads(rows, asc, n) ==
  IF n = 0 \/ rows = {} THEN {<<>>}
  ELSE UNION {
         {<<r>> \o t : t \in SortedHeads(rows \ {r}, asc, n - 1)} :
         r \in {q \in rows : \A o \in rows : ~Before(o, q, asc)}}

\* [["region","value"]]: the two columns the altair script keeps
RegionValue(sq) ==
  [i \in 1..Len(sq) |-> [region |-> sq[i].region, value |-> sq[i].value]]

NoKpi  == [latest |-> NaN, prev |-> NaN, card |-> [delta |-> NaN, shown |-> <<>>]]
NoRank == [state |-> "none", inc |-> <<>>, dec |-> <<>>]
NoView == [ran |-> FALSE, status |-> "none", ts |-> <<>>, kpi |-> NoKpi,
           rank |-> NoRank]
NoSel  == [measure |-> "CUR", sex |-> "TOTAL", region |-> National,
           start |-> 0, end |-> 0, target |-> 0, cent |-> FALSE]

\* the runs a script can make of its ranking section: the info message for
\* an empty rank_base, else the two tables
Rankings(rows, s) ==
  LET rank_base == RankBase(rows, s)
  IN  IF rank_base = {}
      THEN {[state |-> "info", inc |-> <<>>, dec |-> <<>>]}
      ELSE {[state |-> "built", inc |-> i, dec |-> d] :
              i \in SortedHeads(rank_base, FALSE, TopN),
              d \in SortedHeads(rank_base, TRUE, TopN)}

\* one run of the altair script on the loaded table (no upload)
RunAltair ==
  /\ mode = "view"
  /\ ~view1.ran
  /\ LET ts == TimeSeries(df.rows, sel)
     IN  \E rk \in Rankings(df.rows, sel) :
           view1' = [ran |-> TRUE, status |-> "ok", ts |-> ts,
                     kpi  |-> KpiAltair(ts, sel.measure),
                     rank |-> [rk EXCEPT !.inc = RegionValue(@),
                                         !.dec = RegionValue(@)]]
  /\ UNCHANGED <<mode, stdVars, numVars, convVars, df, sel, view2, cacheVars>>

\* one run of the plotly script on the loaded table.  Without an uploaded
\* centroid file line 105 calls os.path.exists, and os is never imported:
\* the run ends there with a NameError, before any filter widget exists.
\* The uploaded centroid file is well formed (load_centroids returns).
RunPlotly ==
  /\ mode = "view"
  /\ ~view2.ran
  /\ IF ~sel.cent
     THEN view2' = [NoView EXCEPT !.ran = TRUE, !.status = "NameError"]
     ELSE LET ts == TimeSeries(df.rows, sel)
          IN  \E rk \in Rankings(df.rows, sel) :
                view2' = [ran |-> TRUE, status |-> "ok", ts |-> ts,
                          kpi  |-> KpiPlotly(ts, sel.measure),
                          rank |-> rk]
  /\ UNCHANGED <<mode, stdVars, numVars, convVars, df, sel, view1, cacheVars>>

-----------------------------------------------------------------------------
(* The memoized loaders: load_data (altair script, lines 12-19), load_long *)
(* and load_centroids (plotly script, lines 12-61).  st.cache_data keeps   *)
(* one table of entries per decorated function, keyed by the hash of the   *)
(* call's arguments: the path string for load_data and load_long, the      *)
(* name and bytes of the uploaded file for load_centroids (its call with   *)
(* the default path, line 106, is never reached: line 105 raises).         *)

NContents == 3
Contents == 1..NContents                \* the versions a file's text can take

DATA_DEFAULT_PATH == "processed_population_change_long.csv"
Paths == {DATA_DEFAULT_PATH}

\* pd.read_csv and the date conversion, lines 14-15: version c of the long
\* file holds one row, of value c
ParseLong(c) ==
  Built({[region |-> Some(<<"A">>), date |-> Timestamp(2024, 1),
          measure |-> "CUR", sex |-> "TOTAL", value |-> Num(c)]})

\* lines 21-61 on a well-formed centroid file: version c holds one region
ParseCentroids(c) ==
  Built({[region |-> <<"A">>, lat |-> 35 + c, lon |-> 127]})

NoEntry == [hit |-> FALSE, table |-> NoDf]
NoLoad  == [loader |-> "none", content |-> 0, returned |-> NoDf]
EmptyCache ==
  [load_data      |-> [k \in Paths |-> NoEntry],
   load_long      |-> [k \in Paths |-> NoEntry],
   load_centroids |-> [k \in Contents |-> NoEntry]]

\* a call of a function decorated with st.cache_data: the stored value when
\* the key has an entry, else the function's result, which is stored
CachedCall(entries, key, computed) ==
  IF entries[key].hit
  THEN [returned |-> entries[key].table, entries |-> entries]
  ELSE [returned |-> computed,
        entries  |-> [entries EXCEPT ![key] = [hit |-> TRUE, table |-> computed]]]

\* the file at a path is rewritten (a new export replaces the long file)
ModifyFile ==
  /\ mode = "cache"
  /\ \E p \in Paths, c \in Contents :
       /\ c # files[p]
       /\ files' = [files EXCEPT ![p] = c]
  /\ UNCHANGED <<mode, stdVars, numVars, convVars, df, viewVars, cache, lastLoad>>

\* altair script, line 95: df = load_data(DATA_DEFAULT_PATH)
LoadData ==
  /\ mode = "cache"
  /\ LET p == DATA_DEFAULT_PATH
         r == CachedCall(cache.load_data, p, ParseLong(files[p]))
     IN  /\ cache' = [cache EXCEPT !.load_data = r.entries]
         /\ df' = r.returned
         /\ lastLoad' = [loader |-> "load_data", content |-> files[p],
                         returned |-> r.returned]
  /\ UNCHANGED <<mode, stdVars, numVars, convVars, viewVars, files>>

\* plotly script, line 95: df = load_long(DATA_DEFAULT_PATH)
LoadLong ==
  /\ mode = "cache"
  /\ LET p == DATA_DEFAULT_PATH
         r == CachedCall(cache.load_long, p, ParseLong(files[p]))
     IN  /\ cache' = [cache EXCEPT !.load_long = r.entries]
         /\ df' = r.returned
         /\ lastLoad' = [loader |-> "load_long", content |-> files[p],
                         returned |-> r.returned]
  /\ UNCHANGED <<mode, stdVars, numVars, convVars, viewVars, files>>

\* plotly script, line 102: cent = load_centroids(uploaded_cent), the
\* uploaded file holding version c
LoadCentroids ==
  /\ mode = "cache"
  /\ \E c \in Contents :
       LET r == CachedCall(cache.load_centroids, c, ParseCentroids(c))
       IN  /\ cache' = [cache EXCEPT !.load_centroids = r.entries]
           /\ lastLoad' = [loader |-> "load_centroids", content |-> c,
                           returned |-> r.returned]
  /\ UNCHANGED <<mode, stdVars, numVars, convVars, df, viewVars, files>>

-----------------------------------------------------------------------------
(* Defaults of the variables a behaviour does not exercise.                *)

NoCall == [done |-> FALSE, val |-> NA]
NoNum  == [done |-> FALSE, raised |-> FALSE, val |-> NaN]

NoRaw  == [hasRegion |-> FALSE, hasStd |-> FALSE, cols |-> <<>>, rows |-> <<>>]

StdIdle   == s_in = NA /\ s_out = NoCall
NumIdle   == x_in = NA /\ x_out = NoNum
ConvIdle  == raw = NoRaw /\ convStatus = "none"
ViewIdle  == sel = NoSel /\ view1 = NoView /\ view2 = NoView
CacheIdle == files = [p \in Paths |-> 1] /\ cache = EmptyCache /\ lastLoad = NoLoad

-----------------------------------------------------------------------------
(* The pure functions, applied to every input of the bounded sets.         *)

CallStandardize ==
  /\ mode = "std"
  /\ ~s_out.done
  /\ s_out' = [done |-> TRUE, val |-> standardize_region(s_in)]
  /\ UNCHANGED <<mode, s_in, numVars, convVars, df, viewVars, cacheVars>>

CallToNum ==
  /\ mode = "num"
  /\ ~x_out.done
  /\ x_out' = [done |-> TRUE, raised |-> to_num(x_in).raised,
               val |-> to_num(x_in).val]
  /\ UNCHANGED <<mode, x_in, stdVars, convVars, df, viewVars, cacheVars>>

\* the convert button of the altair script, lines 50-91
Convert ==
  /\ mode = "conv"
  /\ convStatus = "uploaded"
  /\ LET r == ConvertWide(raw)
     IN  /\ raw' = r.raw
         /\ convStatus' = r.status
         /\ df' = r.df
  /\ UNCHANGED <<mode, stdVars, numVars, viewVars, cacheVars>>

-----------------------------------------------------------------------------
(* The long tables and selections the dashboard is run on.                 *)

RegionNames == <<"A", "B", "C", "D", "E", "F", "G", "H", "I", "J", "K", "L", "M">>
Region(i) == Some(<<RegionNames[i]>>)

Month(m) == Timestamp(2024, m)

Row(i, m, measure, sex, v) ==
  [region |-> Region(i), date |-> Month(m), measure |-> measure, sex |-> sex,
   value |-> v]

\* Tables for the time series and the KPI cards: two regions over NMonths
\* months of the current-population measure, each cell absent, NaN or a
\* number, beside one row each of another measure and another sex.
NMonths == 3
KpiCellOptions == {0, 1, 2}             \* absent, NaN, a number
KpiTables ==
  {  {Row(k[1], k[2], "CUR", "TOTAL", IF f[k] = 1 THEN NaN ELSE Num(5 * k[1])) :
        k \in {q \in DOMAIN f : f[q] # 0}}
     \cup {Row(1, 2, "CHG", "TOTAL", Num(3)), Row(2, 2, "CUR", "MALE", Num(9))} :
     f \in [(1..2) \X (1..NMonths) -> KpiCellOptions]}

Dates(rows) == {r.date : r \in rows}
MinDate(rows) == CHOOSE d \in Dates(rows) : \A e \in Dates(rows) : d <= e
MaxDate(rows) == CHOOSE d \in Dates(rows) : \A e \in Dates(rows) : e <= d

\* the widgets' options, lines 98-121 (altair), 112-129 (plotly)
Selections(rows, measures, sexes, regions, targets, cents) ==
  {[measure |-> m, sex |-> x, region |-> g, start |-> a, end |-> b,
    target |-> t, cent |-> c] :
     m \in measures, x \in sexes,
     g \in regions \cap ({National} \cup {r.region[1] : r \in rows}),
     a \in MinDate(rows)..MaxDate(rows), b \in MinDate(rows)..MaxDate(rows),
     t \in targets \cap Dates(rows), c \in cents} 

KpiSelections(rows) ==
  {s \in Selections(rows, {"CUR", "CHG"}, {"TOTAL"}, {National, <<"A">>},
                    {MaxDate(rows)}, BOOLEAN) : s.start <= s.end}

\* Tables for the rankings: the first n regions each with one row of the
\* population change of month 2, of distinct values, and then at most
\* MaxEdits rows changed in one column (a missing value, a value another
\* region has, another sex), beside three rows of one more region, of
\* another month, measure and sex.
NReg == 11
MaxEdits == 1
BaseValue(i) == i - 6
BaseRows(n) == {Row(i, 2, "CHG", "TOTAL", Num(BaseValue(i))) : i \in 1..n}
Edited(r) ==
  {[r EXCEPT !.value = NaN],
   [r EXCEPT !.value = Num(BaseValue(1))],       \* the least value, again
   [r EXCEPT !.value = Num(BaseValue(NReg))],    \* the greatest, again
   [r EXCEPT !.sex = "MALE"]}

RECURSIVE EditedTables(_, _)
\* a row is edited once, so a key still occurs once in the table
EditedTables(n, k) ==
  IF k = 0 THEN {BaseRows(n)}
  ELSE LET less == EditedTables(n, k - 1)
       IN  less \cup UNION {UNION {{(t \ {r}) \cup {e} : e \in Edited(r)} :
                                     r \in BaseRows(n) \cap t} : t \in less}

OtherRows ==
  {Row(Len(RegionNames), 1, "CHG", "TOTAL", Num(50)),
   Row(Len(RegionNames), 2, "CUR", "TOTAL", Num(60)),
   Row(Len(RegionNames), 2, "CHG", "FEMALE", Num(70))}

RankTable(t) == t \cup OtherRows

RankSelections(rows) ==
  {s \in Selections(rows, {"CHG"}, {"TOTAL", "MALE"}, {National},
                    {Month(1), Month(2)}, BOOLEAN) :
     s.start = MinDate(rows) /\ s.end = MaxDate(rows)}

-----------------------------------------------------------------------------
(* Specifications.                                                         *)

InitStd ==
  /\ mode = "std"
  /\ s_in \in Names /\ s_out = NoCall
  /\ NumIdle /\ ConvIdle /\ df = NoDf /\ ViewIdle /\ CacheIdle

InitNum ==
  /\ mode = "num"
  /\ x_in \in Cells /\ x_out = NoNum
  /\ StdIdle /\ ConvIdle /\ df = NoDf /\ ViewIdle /\ CacheIdle

InitConv ==
  /\ mode = "conv"
  /\ \E hr \in BOOLEAN, p \in ColumnLists, n \in 0..MaxRows :
       \E rs \in [1..n -> WideRows(Len(p), hr)] : raw = WideTable(hr, p, rs)
  /\ convStatus = "uploaded"
  /\ StdIdle /\ NumIdle /\ df = NoDf /\ ViewIdle /\ CacheIdle

InitNoRegion ==
  /\ mode = "conv"
  /\ \E p \in ColumnLists, n \in 0..MaxRows :
       \E rs \in [1..n -> WideRows(Len(p), FALSE)] : raw = WideTable(FALSE, p, rs)
  /\ convStatus = "uploaded"
  /\ StdIdle /\ NumIdle /\ df = NoDf /\ ViewIdle /\ CacheIdle

InitView ==
  /\ mode = "view"
  /\ \E t \in KpiTables : df = Built(t) /\ sel \in KpiSelections(t)
  /\ view1 = NoView /\ view2 = NoView
  /\ StdIdle /\ NumIdle /\ ConvIdle /\ CacheIdle

InitRank ==
  /\ mode = "view"
  /\ \E n \in 0..NReg : \E t \in EditedTables(n, MaxEdits) :
       df = Built(RankTable(t)) /\ sel \in RankSelections(RankTable(t))
  /\ view1 = NoView /\ view2 = NoView
  /\ StdIdle /\ NumIdle /\ ConvIdle /\ CacheIdle

InitCache ==
  /\ mode = "cache"
  /\ CacheIdle /\ df = NoDf
  /\ StdIdle /\ NumIdle /\ ConvIdle /\ ViewIdle

NextStd   == CallStandardize
NextNum   == CallToNum
NextConv  == Convert
NextView  == RunAltair \/ RunPlotly
NextCache == ModifyFile \/ LoadData \/ LoadLong \/ LoadCentroids

SpecStd      == InitStd /\ [][NextStd]_vars
SpecNum      == InitNum /\ [][NextNum]_vars
SpecConv     == InitConv /\ [][NextConv]_vars
SpecNoRegion == InitNoRegion /\ [][NextConv]_vars
SpecView     == InitView /\ [][NextView]_vars
SpecRank     == InitRank /\ [][NextView]_vars
SpecCache    == InitCache /\ [][NextCache]_vars

-----------------------------------------------------------------------------
(* Properties.                                                             *)

Min(S) == CHOOSE m \in S : \A n \in S : m <= n

\* s without its leading and trailing whitespace, said without stripping:
\* the stretch from the first to the last character that is not whitespace
Trimmed(s) ==
  LET solid == {i \in 1..Len(s) : s[i] \notin Whitespace}
  IN  IF solid = {} THEN <<>> ELSE SubSeq(s, Min(solid), Max(solid))

\* C2: standardize_region returns null for null, and for a name whose
\* trimmed form begins with the old province name it returns the trimmed
\* name with that leading occurrence replaced by the new name and everything
\* after it, later occurrences of the old name included, as it was.
C2_FirstOccurrenceOnly ==
  s_out.done =>
    /\ isna(s_in) => isna(s_out.val)
    /\ ~isna(s_in) /\ StartsWith(Trimmed(s_in[1]), OldPrefix) =>
         s_out.val = Some(NewPrefix \o SubSeq(Trimmed(s_in[1]),
                                              Len(OldPrefix) + 1,
                                              Len(Trimmed(s_in[1]))))

\* C2's case: a padded name that begins with the old province name and holds
\* it a second time, which the result still holds
C2_Witness ==
  /\ s_out.done
  /\ ~isna(s_in)
  /\ s_in[1] # Trimmed(s_in[1])
  /\ StartsWith(Trimmed(s_in[1]), OldPrefix)
  /\ Contains(Tail(Trimmed(s_in[1])), OldPrefix)
  /\ Contains(s_out.val[1], OldPrefix)

\* C3, as claimed: every name that does not itself start with the old
\* province name, a name with whitespace before the old name included, comes
\* back as its trimmed form.
C3_AsClaimed ==
  s_out.done /\ ~isna(s_in) /\ ~StartsWith(s_in[1], OldPrefix) =>
    s_out.val = Some(Trimmed(s_in[1]))

\* C3, amended: every non-null name whose trimmed form does not start with
\* the old province name comes back as its trimmed form.
C3_TrimmedFormDecides ==
  s_out.done /\ ~isna(s_in) /\ ~StartsWith(Trimmed(s_in[1]), OldPrefix) =>
    s_out.val = Some(Trimmed(s_in[1]))

\* C3's case: a padded name that holds the old province name, not at its
\* start
C3_Witness ==
  /\ s_out.done
  /\ ~isna(s_in)
  /\ s_in[1] # Trimmed(s_in[1])
  /\ ~StartsWith(Trimmed(s_in[1]), OldPrefix)
  /\ Contains(Trimmed(s_in[1]), OldPrefix)

NotComma(c) == c # ","

RECURSIVE Pow10(_)
Pow10(n) == IF n = 0 THEN 1 ELSE 10 * Pow10(n - 1)

RECURSIVE PlaceValueSum(_, _)
\* the digits ds read as a decimal numeral, from digit i on
PlaceValueSum(ds, i) ==
  IF i > Len(ds) THEN 0
  ELSE DigitVal(ds[i]) * Pow10(Len(ds) - i) + PlaceValueSum(ds, i + 1)

\* what a cell's text denotes once its commas are taken out: a number when
\* the rest, surrounding whitespace aside, is an optionally signed run of
\* digits, and NaN otherwise
Denotes(s) ==
  LET t    == Trimmed(SelectSeq(s, NotComma))
      body == IF t # <<>> /\ t[1] \in {"-", "+"} THEN Tail(t) ELSE t
  IN  IF body # <<>> /\ \A i \in 1..Len(body) : body[i] \in Digits
      THEN Num(IF t[1] = "-" THEN 0 - PlaceValueSum(body, 1)
                             ELSE PlaceValueSum(body, 1))
      ELSE NaN

\* C8: to_num never raises; a null or blank cell gives NaN, a cell that is a
\* number once its commas are stripped gives that number ("1,234" gives
\* 1234), and every other cell gives NaN.
C8_CoercionNeverRaises ==
  x_out.done =>
    /\ ~x_out.raised
    /\ isna(x_in) => isna(x_out.val)
    /\ ~isna(x_in) /\ Trimmed(x_in[1]) = <<>> => isna(x_out.val)
    /\ ~isna(x_in) => x_out.val = Denotes(x_in[1])
    /\ x_in = Some(<<"1", ",", "2", "3", "4">>) => x_out.val = Num(1234)

\* C8's case: the cell "1,234" was coerced
C8_Witness ==
  /\ x_out.done
  /\ x_in = Some(<<"1", ",", "2", "3", "4">>)
  /\ x_out.val = Num(1234)

\* the keys of the reshaped rows of the converted table
ReshapedKeys ==
  {<<l.region, Timestamp(l.year, l.month), l.measure, l.sex>> : l \in Long(raw)}

ReshapedValues(k) ==
  {l.num.val : l \in {q \in Long(raw) :
     <<q.region, Timestamp(q.year, q.month), q.measure, q.sex>> = k}}

\* v is the maximum of the non-null values of vals, null when there is none
IsMaxOf(v, vals) ==
  IF \A u \in vals : isna(u) THEN isna(v)
  ELSE /\ ~isna(v) /\ v \in vals
       /\ \A u \in vals : ~isna(u) => u[1] <= v[1]

\* C1: the long table holds exactly one row for each key (standardized
\* region, date, indicator, sex) that occurs among the reshaped rows, and no
\* other row; the row's value is the maximum of the non-null values
\* reshaped to the key, null when all of them are null.
C1_OneRowPerReshapedKey ==
  convStatus = "ok" =>
    /\ \A k \in ReshapedKeys :
         /\ Cardinality({r \in df.rows : Key(r) = k}) = 1
         /\ \A r \in df.rows : Key(r) = k => IsMaxOf(r.value, ReshapedValues(k))
    /\ \A r \in df.rows : Key(r) \in ReshapedKeys

\* the matching columns of raw whose month no calendar has
BadMonthColumns ==
  {j \in Meta(raw) : ~ValidDate(PatternMatch(raw.cols[j]).year,
                                PatternMatch(raw.cols[j]).month)}

\* C5: a matching column with an out-of-range month costs only its own
\* rows: the conversion completes, and every row reshaped from another
\* column, of a non-null region, has its key in the long table.
C5_BadMonthCostsOnlyItsRows ==
  convStatus # "uploaded" /\ raw.hasRegion /\ BadMonthColumns # {} =>
    /\ convStatus = "ok"
    /\ df.built
    /\ \A l \in Long(raw) :
         l.col \notin BadMonthColumns /\ ~isna(l.region) =>
           \E r \in df.rows :
             Key(r) = <<l.region, Timestamp(l.year, l.month), l.measure, l.sex>>

\* C6: without a region column the conversion ends with a KeyError before
\* anything is reshaped: no long table is built, not even an empty one, and
\* raw is left without the standardized column.
C6_NoRegionColumnFails ==
  convStatus # "uploaded" /\ ~raw.hasRegion =>
    /\ convStatus = "KeyError"
    /\ df = NoDf
    /\ ~raw.hasStd
    /\ \A i \in 1..Len(raw.rows) : isna(raw.rows[i].std)

\* C6's case: a file without the region column, with rows and with columns
\* the pattern matches, was converted
C6_Witness ==
  /\ convStatus = "KeyError"
  /\ ~raw.hasRegion
  /\ Len(raw.rows) > 0
  /\ Meta(raw) # {}

Views == {view1, view2}

\* C4: an all-null group never sums to zero: in the national time series
\* the value of a date whose filtered rows are all null is null.
C4_AllNullGroupSumsToNull ==
  \A v \in Views :
    v.ran /\ v.status = "ok" /\ sel.region = National =>
      \A i \in 1..Len(v.ts) :
        (\A r \in Filtered(df.rows, sel) : r.date = v.ts[i].date => isna(r.value))
          => isna(v.ts[i].value)

\* C10: run on the same table with the same selections, the two scripts
\* show the same KPI triple; for a series of one row the previous value is
\* missing and the delta card shows "-".
C10_SameKpiInBothScripts ==
  view1.ran /\ view2.ran /\ view1.status = "ok" /\ view2.status = "ok" =>
    /\ view1.ts = view2.ts
    /\ view1.kpi = view2.kpi
    /\ Len(view1.ts) = 1 =>
         /\ isna(view1.kpi.prev) /\ isna(view2.kpi.prev)
         /\ sel.measure \in {"CUR", "PREV"} =>
              view1.kpi.card.shown = <<"-">> /\ view2.kpi.card.shown = <<"-">>

\* the rows a ranking is drawn from: population change, the selected sex,
\* the target month
Ranked == {r \in df.rows : r.measure = "CHG" /\ r.sex = sel.sex /\ r.date = sel.target}

\* the row of Ranked an entry of a ranking shows
Shown(e) == {r \in Ranked : r.region = e.region /\ r.value = e.value}

\* tb is a ranking of Ranked: at most TopN entries, as many as there are
\* rows to show, each a row of Ranked and none twice, the values in order
\* (descending, or ascending when asc) with the nulls after the numbers, and
\* no row left out that belongs before an entry
IsRanking(tb, asc) ==
  /\ Len(tb) <= TopN
  /\ Len(tb) = IF Cardinality(Ranked) > TopN THEN TopN ELSE Cardinality(Ranked)
  /\ \A i \in 1..Len(tb) : Shown(tb[i]) # {}
  /\ \A i, j \in 1..Len(tb) : i # j => tb[i].region # tb[j].region
  /\ \A i, j \in 1..Len(tb) :
       i < j => /\ isna(tb[i].value) => isna(tb[j].value)
                /\ ~isna(tb[i].value) /\ ~isna(tb[j].value) =>
                     IF asc THEN tb[i].value[1] <= tb[j].value[1]
                            ELSE tb[i].value[1] >= tb[j].value[1]
  /\ \A r \in Ranked :
       (\A i \in 1..Len(tb) : tb[i].region # r.region) /\ ~isna(r.value) =>
         \A i \in 1..Len(tb) :
           /\ ~isna(tb[i].value)
           /\ IF asc THEN r.value[1] >= tb[i].value[1]
                     ELSE r.value[1] <= tb[i].value[1]

\* C9: in either script, a run that reaches the ranking section shows the
\* info message and no table exactly when no population-change row exists
\* for the target month and sex; otherwise the increase table is a
\* descending and the decrease table an ascending ranking of those rows.
C9_TopTenRankings ==
  \A v \in Views :
    v.ran /\ v.status = "ok" =>
      /\ v.rank.state = (IF Ranked = {} THEN "info" ELSE "built")
      /\ v.rank.state = "info" => v.rank.inc = <<>> /\ v.rank.dec = <<>>
      /\ v.rank.state = "built" =>
           IsRanking(v.rank.inc, FALSE) /\ IsRanking(v.rank.dec, TRUE)

\* C9's case: both scripts ranked more rows than a table shows, one of them
\* of a value another row has or of no value
C9_Witness ==
  /\ view1.ran /\ view2.ran
  /\ view1.rank.state = "built" /\ view2.rank.state = "built"
  /\ Cardinality(Ranked) > TopN
  /\ \/ \E r \in Ranked : isna(r.value)
     \/ \E r, q \in Ranked : r # q /\ r.value = q.value
  /\ \E r \in df.rows : r \notin Ranked

\* C7: a load returns the table parsed from what the source holds at the
\* time of the load.
C7_LoadReturnsCurrentContent ==
  /\ lastLoad.loader \in {"load_data", "load_long"} =>
       lastLoad.returned = ParseLong(lastLoad.content)
  /\ lastLoad.loader = "load_centroids" =>
       lastLoad.returned = ParseCentroids(lastLoad.content)

====
